---- MODULE Spec2Model ----
(***************************************************************************)
(* Model of auditoria_extractor: number_parser.py (Spanish number words to *)
(* integers), text_parsers.py (regular-expression field extractors),       *)
(* pdf_loader.py and pipeline.py (a PDF processed page by page).           *)
(*                                                                         *)
(* A text is a sequence of characters.  An ASCII character is the          *)
(* one-character string; a character outside ASCII is the string naming    *)
(* its code point ("U+00D1" is N with tilde), so that the module itself    *)
(* stays ASCII.  text_parsers.py is stored with its accented letters       *)
(* double-encoded: the pattern that reads DEL A[N<U+221A><U+00EB>]O in the *)
(* file is modelled with exactly those code points.                        *)
(***************************************************************************)
EXTENDS Integers, Sequences, FiniteSets, TLC

VARIABLES
    pc,       \* position of the running call
    text,     \* the input of the call
    parts,    \* the pieces the input text was put together from
    tokens,   \* text_number_to_int: the tokens being scanned
    idx,      \* text_number_to_int: index of the next token
    total,    \* text_number_to_int: accumulator `total`
    current,  \* text_number_to_int: accumulator `current`
    result,   \* the value returned (None until the call returns)
    results,       \* PDFLoader.iter_pages: the list `results`
    page_results,  \* process_pdf: the list `page_results`
    page,          \* process_pdf / iter_pages: index of the page at hand
    calls          \* concurrent extract_all calls: each caller's frame

vars == <<pc, text, parts, tokens, idx, total, current, result,
          results, page_results, page, calls>>

\* the variables of the pipeline and of the concurrent callers
pipeline == <<results, page_results, page, calls>>

\* no PDF is being processed and no concurrent call is running
NoPipeline == results = <<>> /\ page_results = <<>> /\ page = 0 /\ calls = <<>>

\* Optional values: None, or Some(v)
None == <<>>
Some(v) == <<v>>

-----------------------------------------------------------------------------
(* Characters *)

Chars(s) == [i \in 1..Len(s) |-> SubSeq(s, i, i)]

\* code points outside ASCII that occur in the sources or in the inputs
a_acute == "U+00E1"
e_acute == "U+00E9"
i_acute == "U+00ED"
o_acute == "U+00F3"
u_acute == "U+00FA"
u_uml   == "U+00FC"
n_tilde == "U+00F1"
A_ACUTE == "U+00C1"
E_ACUTE == "U+00C9"
I_ACUTE == "U+00CD"
O_ACUTE == "U+00D3"
U_ACUTE == "U+00DA"
U_UML   == "U+00DC"
N_TILDE == "U+00D1"
DEGREE  == "U+00B0"
ORDM    == "U+00BA"
\* the code points the double-encoded letters of text_parsers.py consist of
SQRT    == "U+221A"
A_RING  == "U+00C5"
a_circ  == "U+00E2"
c_ced   == "U+00E7"
i_grave == "U+00EC"
o_uml   == "U+00F6"
e_uml   == "U+00EB"
a_ring  == "U+00E5"
A_CIRC  == "U+00C2"
C_CED   == "U+00C7"
I_GRAVE == "U+00CC"
O_UML   == "U+00D6"
E_UML   == "U+00CB"
NOT_SGN == "U+00AC"
INFTY   == "U+221E"
INTEGR  == "U+222B"
COPYR   == "U+00A9"
PLUSMN  == "U+00B1"
NOTEQ   == "U+2260"
GTEQ    == "U+2265"
LOW9QT  == "U+201A"
A_UML   == "U+00C4"
a_uml   == "U+00E4"
VTAB    == "U+000B"
NBSP    == "U+00A0"

LowerAscii == Chars("abcdefghijklmnopqrstuvwxyz")
UpperAscii == Chars("ABCDEFGHIJKLMNOPQRSTUVWXYZ")
LowerExt == <<a_acute, e_acute, i_acute, o_acute, u_acute, u_uml, n_tilde,
              a_ring, a_circ, c_ced, i_grave, o_uml, e_uml, a_uml>>
UpperExt == <<A_ACUTE, E_ACUTE, I_ACUTE, O_ACUTE, U_ACUTE, U_UML, N_TILDE,
              A_RING, A_CIRC, C_CED, I_GRAVE, O_UML, E_UML, A_UML>>
LowerSeq == LowerAscii \o LowerExt
UpperSeq == UpperAscii \o UpperExt

Range(f) == {f[i] : i \in DOMAIN f}

LowerMap == [c \in Range(UpperSeq) |-> LowerSeq[CHOOSE i \in DOMAIN UpperSeq : UpperSeq[i] = c]]
UpperMap == [c \in Range(LowerSeq) |-> UpperSeq[CHOOSE i \in DOMAIN LowerSeq : LowerSeq[i] = c]]

\* str.lower() and str.upper() on one character
LowerCh(c) == IF c \in DOMAIN LowerMap THEN LowerMap[c] ELSE c
UpperCh(c) == IF c \in DOMAIN UpperMap THEN UpperMap[c] ELSE c

Lower(s) == [i \in DOMAIN s |-> LowerCh(s[i])]
Upper(s) == [i \in DOMAIN s |-> UpperCh(s[i])]

Digits == Range(Chars("0123456789"))
Letters == Range(LowerSeq) \cup Range(UpperSeq)
\* \s of the regular expressions, and the characters str.strip()/str.split() drop
Whitespace == {" ", "\t", "\n", "\r", "\f", VTAB, NBSP}
\* \w of the regular expressions
WordChars == Letters \cup Digits \cup {"_", ORDM}

-----------------------------------------------------------------------------
(* str methods used by both modules.  Operators over the positions of a     *)
(* text halve the range they look at, so that evaluation stays shallow.     *)

Indices(s) == [i \in 1..Len(s) |-> i]

\* a local variable: the value v under the name the operator In gives it
Let(v, In(_)) == In(v)

\* the first position of lo..hi whose character is in `chars` (for inside = TRUE)
\* or outside it (for inside = FALSE); hi + 1 when there is none
RECURSIVE FirstAt(_, _, _, _, _)
FirstAt(s, chars, inside, lo, hi) ==
    IF lo > hi THEN hi + 1
    ELSE IF lo = hi THEN (IF (s[lo] \in chars) = inside THEN lo ELSE hi + 1)
    ELSE LET mid == (lo + hi) \div 2
             left == FirstAt(s, chars, inside, lo, mid)
         IN  IF left <= mid THEN left ELSE FirstAt(s, chars, inside, mid + 1, hi)

\* the last such position; lo - 1 when there is none
RECURSIVE LastAt(_, _, _, _, _)
LastAt(s, chars, inside, lo, hi) ==
    IF lo > hi THEN lo - 1
    ELSE IF lo = hi THEN (IF (s[lo] \in chars) = inside THEN lo ELSE lo - 1)
    ELSE LET mid == (lo + hi) \div 2
             right == LastAt(s, chars, inside, mid + 1, hi)
         IN  IF right > mid THEN right ELSE LastAt(s, chars, inside, lo, mid)

\* the concatenation of the sequences ss[lo], ..., ss[hi]
RECURSIVE Flatten(_, _, _)
Flatten(ss, lo, hi) ==
    IF lo > hi THEN <<>>
    ELSE IF lo = hi THEN ss[lo]
    ELSE Flatten(ss, lo, (lo + hi) \div 2) \o Flatten(ss, (lo + hi) \div 2 + 1, hi)

\* "".join(cs), as a string
RECURSIVE StrBetween(_, _, _)
StrBetween(cs, lo, hi) ==
    IF lo > hi THEN ""
    ELSE IF lo = hi THEN cs[lo]
    ELSE StrBetween(cs, lo, (lo + hi) \div 2) \o StrBetween(cs, (lo + hi) \div 2 + 1, hi)

Str(cs) == StrBetween(cs, 1, Len(cs))

\* str.strip(drop)
StripChars(s, drop) ==
    SubSeq(s, FirstAt(s, drop, FALSE, 1, Len(s)), LastAt(s, drop, FALSE, 1, Len(s)))
\* str.strip()
Strip(s) == StripChars(s, Whitespace)

\* re.sub(r"\s+", " ", s): every run of whitespace becomes one space
CollapseWhitespace(s) ==
    LET kept == SelectSeq(Indices(s),
                          LAMBDA i : ~(s[i] \in Whitespace /\ i > 1 /\ s[i - 1] \in Whitespace))
    IN  [k \in DOMAIN kept |-> IF s[kept[k]] \in Whitespace THEN " " ELSE s[kept[k]]]

\* str.split(): the maximal runs of characters that are not whitespace
Split(s) ==
    LET starts == SelectSeq(Indices(s),
                            LAMBDA i : s[i] \notin Whitespace
                                         /\ (i = 1 \/ s[i - 1] \in Whitespace))
    IN  [k \in DOMAIN starts |->
            SubSeq(s, starts[k], FirstAt(s, Whitespace, TRUE, starts[k], Len(s)) - 1)]

\* " ".join(words)
Join(words) ==
    Flatten([k \in 1..Len(words) |-> IF k = 1 THEN words[k] ELSE <<" ">> \o words[k]],
            1, Len(words))

\* text_parsers._normalize_spaces
normalize_spaces(t) == Strip(CollapseWhitespace(t))

-----------------------------------------------------------------------------
(* Regular expressions, as the backtracking matcher of the `regex` module  *)
(* runs them.  Match gives every way a pattern matches at one position, in *)
(* the order backtracking tries them: the first is the match reported.     *)

Set(chars) == [t |-> "set", s |-> chars, neg |-> FALSE]
NotSet(chars) == [t |-> "set", s |-> chars, neg |-> TRUE]
Cat(rs) == [t |-> "cat", rs |-> rs]
Alt(rs) == [t |-> "alt", rs |-> rs]
Grp(n, r) == [t |-> "grp", n |-> n, r |-> r]
EndOfString == [t |-> "eos"]
WordBoundary == [t |-> "wb"]
Repeat(r, min, max, unbounded, lazy) ==
    [t |-> "rep", r |-> r, min |-> min, max |-> max, unbounded |-> unbounded, lazy |-> lazy]

Star(r) == Repeat(r, 0, 0, TRUE, FALSE)
Plus(r) == Repeat(r, 1, 0, TRUE, FALSE)
LazyPlus(r) == Repeat(r, 1, 0, TRUE, TRUE)
LazyStar(r) == Repeat(r, 0, 0, TRUE, TRUE)
Opt(r) == Repeat(r, 0, 1, FALSE, FALSE)
Between(r, min, max) == Repeat(r, min, max, FALSE, FALSE)
LazyBetween(r, min, max) == Repeat(r, min, max, FALSE, TRUE)

\* re.IGNORECASE on a set of characters
IgnoreCase(chars) == chars \cup {LowerCh(c) : c \in chars} \cup {UpperCh(c) : c \in chars}

\* a literal, matched under re.IGNORECASE
Lit(str) == [t |-> "lit", cs |-> [i \in 1..Len(str) |-> IgnoreCase({SubSeq(str, i, i)})]]

AnyChar == NotSet({"\n"})
Space == Set(Whitespace)
Spaces == Plus(Space)
OptSpaces == Star(Space)
Digit == Set(Digits)

NoCaps == [g \in 1..2 |-> <<0, 0>>]

InSet(r, txt, i) == i <= Len(txt) /\ ((txt[i] \in r.s) # r.neg)

\* how many characters from position i on are in the set r
RunLength(r, txt, i) == FirstAt(txt, r.s, r.neg, i, Len(txt)) - i

IsWordAt(txt, i) == i >= 1 /\ i <= Len(txt) /\ txt[i] \in WordChars

\* the outcomes without the repetitions of an earlier one
Unique(outs) ==
    LET firsts == SelectSeq(Indices(outs), LAMBDA k : \A j \in 1..(k - 1) : outs[j] # outs[k])
    IN  [k \in DOMAIN firsts |-> outs[firsts[k]]]

RECURSIVE Match(_, _, _, _)
RECURSIVE MatchCat(_, _, _, _)
RECURSIVE MatchRepeat(_, _, _, _, _)

\* the pattern r continued from each of the outcomes, in their order
MatchEach(r, txt, outs) ==
    Flatten([k \in 1..Len(outs) |-> Match(r, txt, outs[k].p, outs[k].c)], 1, Len(outs))

MatchCat(rs, k, txt, outs) ==
    IF outs = <<>> \/ k > Len(rs) THEN outs
    ELSE MatchCat(rs, k + 1, txt,
                  LET next == MatchEach(rs[k], txt, outs)
                  IN  IF Len(next) > 1 THEN Unique(next) ELSE next)

\* n repetitions of r.r have matched and the next would start at i
MatchRepeat(r, txt, i, caps, n) ==
    LET stop == IF n >= r.min THEN <<[p |-> i, c |-> caps]>> ELSE <<>>
        once == IF r.unbounded \/ n < r.max
                THEN SelectSeq(Match(r.r, txt, i, caps), LAMBDA o : o.p > i)
                ELSE <<>>
        more == Flatten([k \in 1..Len(once) |->
                            MatchRepeat(r, txt, once[k].p, once[k].c, n + 1)],
                        1, Len(once))
    IN  IF r.lazy THEN stop \o more ELSE more \o stop

Match(r, txt, i, caps) ==
    CASE r.t = "set" ->
            IF InSet(r, txt, i) THEN <<[p |-> i + 1, c |-> caps]>> ELSE <<>>
      [] r.t = "lit" ->
            IF i + Len(r.cs) - 1 <= Len(txt) /\ \A k \in 1..Len(r.cs) : txt[i + k - 1] \in r.cs[k]
            THEN <<[p |-> i + Len(r.cs), c |-> caps]>> ELSE <<>>
      [] r.t = "cat" -> MatchCat(r.rs, 1, txt, <<[p |-> i, c |-> caps]>>)
      [] r.t = "alt" ->
            Flatten([k \in 1..Len(r.rs) |-> Match(r.rs[k], txt, i, caps)], 1, Len(r.rs))
      [] r.t = "grp" ->
            LET outs == Match(r.r, txt, i, caps)
            IN  [k \in DOMAIN outs |->
                    [p |-> outs[k].p, c |-> [outs[k].c EXCEPT ![r.n] = <<i, outs[k].p>>]]]
      [] r.t = "eos" ->
            IF i = Len(txt) + 1 \/ (i = Len(txt) /\ txt[i] = "\n")
            THEN <<[p |-> i, c |-> caps]>> ELSE <<>>
      [] r.t = "wb" ->
            IF IsWordAt(txt, i - 1) # IsWordAt(txt, i)
            THEN <<[p |-> i, c |-> caps]>> ELSE <<>>
      [] r.t = "rep" ->
            IF r.r.t = "set"
            THEN \* a repeated character set: the run of characters in the set
                 LET run == RunLength(r.r, txt, i)
                     most == IF r.unbounded \/ run < r.max THEN run ELSE r.max
                 IN  IF most < r.min THEN <<>>
                     ELSE [k \in 1..(most - r.min + 1) |->
                             [p |-> i + (IF r.lazy THEN r.min + k - 1 ELSE most - k + 1),
                              c |-> caps]]
            ELSE MatchRepeat(r, txt, i, caps, 0)

\* the first position of lo..hi at which r matches; hi + 1 when there is none
RECURSIVE FirstMatchAt(_, _, _, _)
FirstMatchAt(r, txt, lo, hi) ==
    IF lo > hi THEN hi + 1
    ELSE IF lo = hi THEN (IF Match(r, txt, lo, NoCaps) # <<>> THEN lo ELSE hi + 1)
    ELSE LET mid == (lo + hi) \div 2
             left == FirstMatchAt(r, txt, lo, mid)
         IN  IF left <= mid THEN left ELSE FirstMatchAt(r, txt, mid + 1, hi)

\* re.search from position i: the leftmost match, None when there is none
SearchFrom(r, txt, i) ==
    Let(FirstMatchAt(r, txt, i, Len(txt) + 1), LAMBDA at :
        IF at > Len(txt) + 1 THEN None
        ELSE Let(Match(r, txt, at, NoCaps)[1], LAMBDA out :
                 Some([s |-> at, e |-> out.p, c |-> out.c])))

Search(r, txt) == SearchFrom(r, txt, 1)

\* re.finditer: the matches that do not overlap, from left to right
RECURSIVE FindIterFrom(_, _, _)
FindIterFrom(r, txt, i) ==
    Let(SearchFrom(r, txt, i), LAMBDA m :
        IF m = None THEN <<>>
        ELSE <<m[1]>> \o FindIterFrom(r, txt, IF m[1].e > m[1].s THEN m[1].e ELSE m[1].e + 1))

FindIter(r, txt) == FindIterFrom(r, txt, 1)

\* m.group(g)
Group(txt, m, g) == SubSeq(txt, m.c[g][1], m.c[g][2] - 1)

-----------------------------------------------------------------------------
(* number_parser.py *)

UNIDADES ==
    ("cero" :> 0) @@ ("un" :> 1) @@ ("uno" :> 1) @@ ("una" :> 1) @@ ("dos" :> 2) @@
    ("tres" :> 3) @@ ("cuatro" :> 4) @@ ("cinco" :> 5) @@ ("seis" :> 6) @@
    ("siete" :> 7) @@ ("ocho" :> 8) @@ ("nueve" :> 9)

ESPECIALES ==
    ("diez" :> 10) @@ ("once" :> 11) @@ ("doce" :> 12) @@ ("trece" :> 13) @@
    ("catorce" :> 14) @@ ("quince" :> 15) @@ (("diecis" \o e_acute \o "is") :> 16) @@
    ("dieciseis" :> 16) @@ ("diecisiete" :> 17) @@ ("dieciocho" :> 18) @@
    ("diecinueve" :> 19)

DECENAS ==
    ("veinte" :> 20) @@ ("treinta" :> 30) @@ ("cuarenta" :> 40) @@ ("cincuenta" :> 50) @@
    ("sesenta" :> 60) @@ ("setenta" :> 70) @@ ("ochenta" :> 80) @@ ("noventa" :> 90)

CENTENAS ==
    ("cien" :> 100) @@ ("ciento" :> 100) @@ ("doscientos" :> 200) @@
    ("trescientos" :> 300) @@ ("cuatrocientos" :> 400) @@ ("quinientos" :> 500) @@
    ("seiscientos" :> 600) @@ ("setecientos" :> 700) @@ ("ochocientos" :> 800) @@
    ("novecientos" :> 900)

MULTIPLICADORES ==
    ("mil" :> 1000) @@ ("millon" :> 1000000) @@ (("mill" \o o_acute \o "n") :> 1000000) @@
    ("millones" :> 1000000)

\* the chained .replace() calls of normalize_text_number
FoldAccent(c) ==
    CASE c = a_acute -> "a"
      [] c = e_acute -> "e"
      [] c = i_acute -> "i"
      [] c = o_acute -> "o"
      [] c = u_acute -> "u"
      [] c = u_uml -> "u"
      [] OTHER -> c

\* re.sub(r"[^a-z\s]", " ", text)
BlankNonLetter(c) == IF c \in Range(LowerAscii) \cup Whitespace THEN c ELSE " "

\* normalize_text_number that collapses and strips before it blanks the non-letters
normalize_text_number_StripFirst(t) ==
    LET folded == [i \in DOMAIN t |-> FoldAccent(LowerCh(t[i]))]
        tidy == Strip(CollapseWhitespace(folded))
    IN  [i \in DOMAIN tidy |-> BlankNonLetter(tidy[i])]

normalize_text_number(t) ==
    Strip(CollapseWhitespace([i \in DOMAIN t |-> BlankNonLetter(FoldAccent(LowerCh(t[i])))]))

\* ScanToken with a multiplier that multiplies an empty `current` as it stands
ScanToken_NoImplicitOne(token, acc) ==
    IF token \in DOMAIN UNIDADES THEN [acc EXCEPT !.current = @ + UNIDADES[token]]
    ELSE IF token \in DOMAIN ESPECIALES THEN [acc EXCEPT !.current = @ + ESPECIALES[token]]
    ELSE IF token \in DOMAIN DECENAS THEN [acc EXCEPT !.current = @ + DECENAS[token]]
    ELSE IF token \in DOMAIN CENTENAS THEN [acc EXCEPT !.current = @ + CENTENAS[token]]
    ELSE IF token = "y" THEN acc
    ELSE IF token \in DOMAIN MULTIPLICADORES
         THEN [total |-> acc.total + acc.current * MULTIPLICADORES[token], current |-> 0]
    ELSE acc

\* ScanToken with an unknown word that ends the group being accumulated
ScanToken_UnknownResets(token, acc) ==
    IF token \in DOMAIN UNIDADES THEN [acc EXCEPT !.current = @ + UNIDADES[token]]
    ELSE IF token \in DOMAIN ESPECIALES THEN [acc EXCEPT !.current = @ + ESPECIALES[token]]
    ELSE IF token \in DOMAIN DECENAS THEN [acc EXCEPT !.current = @ + DECENAS[token]]
    ELSE IF token \in DOMAIN CENTENAS THEN [acc EXCEPT !.current = @ + CENTENAS[token]]
    ELSE IF token = "y" THEN acc
    ELSE IF token \in DOMAIN MULTIPLICADORES
         THEN [total |-> acc.total
                           + (IF acc.current = 0 THEN 1 ELSE acc.current) * MULTIPLICADORES[token],
               current |-> 0]
    ELSE [total |-> acc.total + acc.current, current |-> 0]

\* the loop body with a multiplier that scales everything accumulated so far
ScanToken_MultipliesTotal(token, acc) ==
    IF token \in DOMAIN UNIDADES THEN [acc EXCEPT !.current = @ + UNIDADES[token]]
    ELSE IF token \in DOMAIN ESPECIALES THEN [acc EXCEPT !.current = @ + ESPECIALES[token]]
    ELSE IF token \in DOMAIN DECENAS THEN [acc EXCEPT !.current = @ + DECENAS[token]]
    ELSE IF token \in DOMAIN CENTENAS THEN [acc EXCEPT !.current = @ + CENTENAS[token]]
    ELSE IF token = "y" THEN acc
    ELSE IF token \in DOMAIN MULTIPLICADORES
         THEN [total |-> (acc.total + (IF acc.current = 0 THEN 1 ELSE acc.current))
                           * MULTIPLICADORES[token],
               current |-> 0]
    ELSE acc

\* one iteration of the for loop of text_number_to_int: the accumulators after `token`
ScanToken(token, acc) ==
    IF token \in DOMAIN UNIDADES THEN [acc EXCEPT !.current = @ + UNIDADES[token]]
    ELSE IF token \in DOMAIN ESPECIALES THEN [acc EXCEPT !.current = @ + ESPECIALES[token]]
    ELSE IF token \in DOMAIN DECENAS THEN [acc EXCEPT !.current = @ + DECENAS[token]]
    ELSE IF token \in DOMAIN CENTENAS THEN [acc EXCEPT !.current = @ + CENTENAS[token]]
    ELSE IF token = "y" THEN acc
    ELSE IF token \in DOMAIN MULTIPLICADORES
         THEN [total |-> acc.total
                           + (IF acc.current = 0 THEN 1 ELSE acc.current) * MULTIPLICADORES[token],
               current |-> 0]
    ELSE acc

RECURSIVE ScanTokens(_, _)
ScanTokens(toks, acc) ==
    IF toks = <<>> THEN acc ELSE ScanTokens(Tail(toks), ScanToken(Head(toks), acc))

\* the return statement without its test: a total of zero is returned as 0
ReturnTotal_NoZeroTest(acc) == Some(acc.total + acc.current)

\* the return statement of text_number_to_int
ReturnTotal(acc) ==
    IF acc.total + acc.current # 0 THEN Some(acc.total + acc.current) ELSE None

Words(t) == Let(Split(t), LAMBDA ws : [i \in DOMAIN ws |-> Str(ws[i])])

\* text_number_to_int as a function of its argument
text_number_to_int(t) ==
    IF t = <<>> THEN None
    ELSE Let(normalize_text_number(t), LAMBDA n :
             IF n = <<>> THEN None
             ELSE ReturnTotal(ScanTokens(Words(n), [total |-> 0, current |-> 0])))

-----------------------------------------------------------------------------
(* text_parsers.py: the single-valued fields of the certificate's cover *)

\* [A-Z<..>] as the file spells it: the capitals, a space, and the code points
\* its double-encoded accented capitals consist of
LetrasClase ==
    IgnoreCase(Range(UpperAscii)
                 \cup {SQRT, A_RING, a_circ, c_ced, i_grave, o_uml, u_acute, e_uml, " "})

\* N[<degree><ordinal>] as the file spells it
NumeroSigno == Cat(<<Lit("N"), Set(IgnoreCase({NOT_SGN, INFTY, INTEGR}))>>)

\* A[N<N tilde>]O and A<N tilde>O as the file spells them
AnioVariantes == Cat(<<Lit("A"), Set(IgnoreCase({"N", SQRT, e_uml})), Lit("O")>>)
AnioDoble == Cat(<<Lit("A"), Set({SQRT}), Set(IgnoreCase({e_uml})), Lit("O")>>)

\* the characters str.title() takes for part of a word
Cased == Letters \cup {ORDM}

\* str.title()
Title(s) ==
    [i \in DOMAIN s |-> IF i > 1 /\ s[i - 1] \in Cased THEN LowerCh(s[i]) ELSE UpperCh(s[i])]

\* `sub in s` for strings
Contains(s, sub) ==
    \E i \in 1..(Len(s) - Len(sub) + 1) : SubSeq(s, i, i + Len(sub) - 1) = sub

\* [A-Z<..> ] of lines 38, 39 and 301 is the class of the folio patterns
\* [A-Z0-9 ,/<ordinal>\-] as the file spells it
NombreClase ==
    Range(UpperAscii) \cup Digits \cup {" ", ",", "/", NOT_SGN, INTEGR, "-"}

\* [<O acute>O] as the file spells it
OAcentuada == Set(IgnoreCase({SQRT, i_grave, "O"}))

OptQuote == Opt(Set({"\""}))
OptA == Opt(Lit("A"))

\* r"CONSERVADOR(?:A)? DE MINAS DE\s+([A-Z<..> ]+)"
PatConservador1 ==
    Cat(<<Lit("CONSERVADOR"), OptA, Lit(" DE MINAS DE"), Spaces,
          Grp(1, Plus(Set(LetrasClase)))>>)

\* r"CONSERVADOR(?:A)? DE MINAS\s+DE\s+([A-Z<..> ]+)"
PatConservador2 ==
    Cat(<<Lit("CONSERVADOR"), OptA, Lit(" DE MINAS"), Spaces, Lit("DE"), Spaces,
          Grp(1, Plus(Set(LetrasClase)))>>)

\* the first of the patterns that matches, None when none does
RECURSIVE FirstMatch(_, _, _)
FirstMatch(pats, k, txt) ==
    IF k > Len(pats) THEN None
    ELSE Let(Search(pats[k], txt), LAMBDA m :
             IF m # None THEN m ELSE FirstMatch(pats, k + 1, txt))

extract_conservador(t) ==
    Let(FirstMatch(<<PatConservador1, PatConservador2>>, 1, t), LAMBDA m :
        IF m = None THEN None
        ELSE Some(Chars("Conservador de Minas de ") \o Title(Strip(Group(t, m[1], 1)))))

\* the three patterns of extract_nombre_concesion
PatNombre1 ==
    Cat(<<Lit("INSCRIPCION DE MENSURA"), Spaces, OptQuote,
          Grp(1, Plus(Set(IgnoreCase(NombreClase)))), OptQuote>>)
PatNombre2 ==
    Cat(<<Lit("MENSURA"), Spaces, OptQuote,
          Grp(1, Plus(Set(IgnoreCase(NombreClase)))), OptQuote>>)
PatNombre3 ==
    Cat(<<Lit("CONCESI"), OAcentuada, Lit("N MINERA DE EXPLOTACI"), OAcentuada, Lit("N"),
          Spaces, OptQuote, Grp(1, Plus(Set(IgnoreCase(NombreClase)))), OptQuote>>)

\* r"\"([A-Z0-9 ,/<..>\-]+)\"", without re.IGNORECASE
PatNombreQuoted == Cat(<<Set({"\""}), Grp(1, Plus(Set(NombreClase))), Set({"\""})>>)

\* the shortest name taken for a concession's name
MinNombreLen == 4

\* lines 69-75: the first pattern whose capture has four characters or more
RECURSIVE NombreFromPatterns(_, _, _)
NombreFromPatterns(pats, k, norm) ==
    IF k > Len(pats) THEN None
    ELSE Let(Search(pats[k], norm), LAMBDA m :
             Let(IF m = None THEN <<>> ELSE StripChars(Group(norm, m[1], 1), {" ", "\""}),
                 LAMBDA nombre :
                     IF m # None /\ Len(nombre) >= MinNombreLen THEN Some(Title(nombre))
                     ELSE NombreFromPatterns(pats, k + 1, norm)))

\* lines 77-80: the first quoted run of name characters, if it is long enough
NombreQuoted(norm) ==
    Let(Search(PatNombreQuoted, norm), LAMBDA m2 :
        IF m2 # None /\ Len(Group(norm, m2[1], 1)) >= MinNombreLen
        THEN Some(Title(Group(norm, m2[1], 1)))
        ELSE None)

extract_nombre_concesion(t) ==
    Let(normalize_spaces(t), LAMBDA norm :
        Let(NombreFromPatterns(<<PatNombre1, PatNombre2, PatNombre3>>, 1, norm), LAMBDA found :
            IF found # None THEN found ELSE NombreQuoted(norm)))

\* [0-9\.\-<en dash>] as the file spells it
RolClase == Digits \cup {".", "-"} \cup IgnoreCase({LOW9QT, A_UML, i_grave})

\* r"ROL\s+NACIONAL\s+N[<..>]\s*([0-9\.\-<..>]+)" and r"ROL\s+NACIONAL\s+([0-9\.\-<..>]+)"
PatRol1 ==
    Cat(<<Lit("ROL"), Spaces, Lit("NACIONAL"), Spaces, NumeroSigno, OptSpaces,
          Grp(1, Plus(Set(RolClase)))>>)
PatRol2 ==
    Cat(<<Lit("ROL"), Spaces, Lit("NACIONAL"), Spaces, Grp(1, Plus(Set(RolClase)))>>)

extract_rol_nacional(t) ==
    Let(FirstMatch(<<PatRol1, PatRol2>>, 1, t), LAMBDA m :
        IF m = None THEN None ELSE Some(Strip(Group(t, m[1], 1))))

Meses ==
    <<"ENERO", "FEBRERO", "MARZO", "ABRIL", "MAYO", "JUNIO", "JULIO", "AGOSTO",
      "SEPTIEMBRE", "OCTUBRE", "NOVIEMBRE", "DICIEMBRE">>

\* rf"([A-Z<..> ]+?\s+DE\s+(?:{meses})\s+DEL\s+A[N<..>]O\s+[A-Z<..> ]+)"
PatFecha ==
    Grp(1, Cat(<<LazyPlus(Set(LetrasClase)), Spaces, Lit("DE"), Spaces,
                 Alt([i \in DOMAIN Meses |-> Lit(Meses[i])]), Spaces, Lit("DEL"), Spaces,
                 AnioVariantes, Spaces, Plus(Set(LetrasClase))>>))

extract_fecha_texto(t) ==
    Let(Search(PatFecha, t), LAMBDA m :
        IF m = None THEN None ELSE Some(Title(normalize_spaces(Group(t, m[1], 1)))))

-----------------------------------------------------------------------------
(* text_parsers.py: extract_titular *)

\* [A-Z<..>0-9 \.&\-] as the file spells it
TitularClase ==
    IgnoreCase(Range(UpperAscii)
                 \cup {SQRT, A_RING, a_circ, c_ced, i_grave, o_uml, u_acute, e_uml}
                 \cup Digits \cup {" ", ".", "&", "-"})

\* (?:,|\sINSCRITA|\sROLANTE|\sDEL\s+A<..>O|\.)
TitularFin ==
    Alt(<<Set({","}),
          Cat(<<Space, Lit("INSCRITA")>>),
          Cat(<<Space, Lit("ROLANTE")>>),
          Cat(<<Space, Lit("DEL"), Spaces, AnioDoble>>),
          Set({"."})>>)

TitularCaptura == Grp(1, LazyPlus(Set(TitularClase)))

PatCaratula ==
    Cat(<<Lit("INSCRIPCION DE MENSURA"), Spaces, Set({"\""}),
          Plus(Set(IgnoreCase(NombreClase))), Set({"\""}), Spaces, Lit("DE"), Spaces,
          TitularCaptura, TitularFin>>)
PatANombreDe ==
    Cat(<<Lit("A"), Spaces, Lit("NOMBRE"), Spaces, Lit("DE"), Spaces,
          TitularCaptura, TitularFin>>)
PatDePropiedadDe ==
    Cat(<<Lit("DE"), Spaces, Lit("PROPIEDAD"), Spaces, Lit("DE"), Spaces,
          TitularCaptura, TitularFin>>)
PatTitular == Cat(<<Lit("TITULAR"), Spaces, TitularCaptura, TitularFin>>)

\* [m.group(1).strip() for m in re.finditer(pat, txt)]
Captures(pat, txt) ==
    Let(FindIter(pat, txt), LAMBDA ms : [k \in DOMAIN ms |-> Strip(Group(txt, ms[k], 1))])

\* lines 94-117: the candidates, in the order they are appended
TitularCandidatos(norm) ==
    Captures(PatCaratula, norm) \o Captures(PatANombreDe, norm)
        \o Captures(PatDePropiedadDe, norm) \o Captures(PatTitular, norm)

Primeras ==
    {Chars(w) : w \in {"SE", "LA", "EL", "ENTRE", "CINCUENTA", "CIENTO", "CERO", "INTERES"}}

StripPunct(c) == StripChars(c, {" ", ",", ".", ";"})

es_titular_valido(c) ==
    Let(Split(StripPunct(c)), LAMBDA palabras :
        /\ StripPunct(c) # <<>>
        /\ Len(palabras) >= 2
        /\ Len(palabras) <= 8
        /\ Upper(palabras[1]) \notin Primeras)

SufijosSociedad == {Chars("S.A"), Chars("LTDA"), Chars("LIMITADA"), Chars("SPA"), Chars("S.P.A")}

\* "COMPA<..>A" is the word as the file spells it
PalabrasSociedad ==
    { Chars("MINERA"), Chars("COMPA") \o <<SQRT, e_uml, SQRT, c_ced>> \o Chars("A"),
      Chars("COMPANIA"), Chars("SOCIEDAD") }

score_titular(c) ==
    (IF \E tag \in SufijosSociedad : Contains(Upper(c), tag) THEN 3 ELSE 0)
      + (IF \E tag \in PalabrasSociedad : Contains(Upper(c), tag) THEN 2 ELSE 0)
      + (IF Len(Split(c)) >= 2 THEN 1 ELSE 0)

\* list.sort(key=score_titular) without reverse=True
RECURSIVE SortByScore_Ascending(_, _)
SortByScore_Ascending(cs, k) ==
    IF k < 0 THEN <<>>
    ELSE SortByScore_Ascending(cs, k - 1) \o SelectSeq(cs, LAMBDA c : score_titular(c) = k)

\* list.sort(key=score_titular, reverse=True): a stable sort, so the candidates
\* of score k and below follow those above, each score in the order of the list
RECURSIVE SortByScore(_, _)
SortByScore(cs, k) ==
    IF k < 0 THEN <<>>
    ELSE SelectSeq(cs, LAMBDA c : score_titular(c) = k) \o SortByScore(cs, k - 1)

\* lines 119-161
TitularElegido(candidatos) ==
    Let(SelectSeq(candidatos, es_titular_valido), LAMBDA validos :
        Let([k \in DOMAIN validos |-> StripPunct(validos[k])], LAMBDA candidatos_filtrados :
            IF candidatos = <<>> \/ candidatos_filtrados = <<>> THEN None
            ELSE Some(Title(SortByScore(candidatos_filtrados, 6)[1]))))

extract_titular(t) == TitularElegido(TitularCandidatos(normalize_spaces(t)))

-----------------------------------------------------------------------------
(* text_parsers.py: identity numbers, addresses, courts, dockets *)

CedulaClase == Digits \cup {".", "-", "k", "K"}
OptNumeroSigno == Cat(<<Lit("N"), Opt(Set(IgnoreCase({NOT_SGN, INFTY, INTEGR})))>>)
CedulaDeIdentidad == Cat(<<Lit("CEDULA"), Opt(Lit(" NACIONAL")), Lit(" DE IDENTIDAD")>>)

PatCedula1 ==
    Cat(<<CedulaDeIdentidad, Spaces, OptNumeroSigno, OptSpaces, Grp(1, Plus(Set(CedulaClase)))>>)
PatCedula2 ==
    Cat(<<CedulaDeIdentidad, Spaces, Lit("NUMERO"), OptSpaces, Grp(1, Plus(Set(CedulaClase)))>>)
PatRut == Cat(<<Lit("RUT"), OptSpaces, Grp(1, Plus(Set(CedulaClase)))>>)

\* the loop `if v and v not in resultados: resultados.append(v)` that forgets the test
RECURSIVE AppendNew_NoTest(_, _)
AppendNew_NoTest(resultados, vs) ==
    IF vs = <<>> THEN resultados
    ELSE AppendNew_NoTest(IF Head(vs) = <<>> THEN resultados ELSE Append(resultados, Head(vs)),
                          Tail(vs))

\* the loop `if v and v not in resultados: resultados.append(v)` over the values vs
RECURSIVE AppendNew(_, _)
AppendNew(resultados, vs) ==
    IF vs = <<>> THEN resultados
    ELSE AppendNew(IF Head(vs) = <<>> \/ Head(vs) \in Range(resultados)
                   THEN resultados ELSE Append(resultados, Head(vs)),
                   Tail(vs))

\* `for pat in patrones: for m in re.finditer(pat, txt): ...`
RECURSIVE Collect(_, _, _, _)
Collect(pats, k, txt, resultados) ==
    IF k > Len(pats) THEN resultados
    ELSE Collect(pats, k + 1, txt, AppendNew(resultados, Captures(pats[k], txt)))

PatronesCedula == <<PatCedula1, PatCedula2, PatRut>>

extract_cedulas_identidad(t) == Collect(PatronesCedula, 1, t, <<>>)

DomicilioCaptura == Grp(1, Plus(NotSet({",", ".", ";"})))

PatDomiciliado ==
    Cat(<<Lit("DOMICILIAD"), Set(IgnoreCase({"O", "A"})), Spaces, Lit("EN"), Spaces,
          DomicilioCaptura>>)
PatConDomicilio ==
    Cat(<<Lit("CON"), Spaces, Lit("DOMICILIO"), Spaces, Lit("EN"), Spaces, DomicilioCaptura>>)
PatDomicilio == Cat(<<Lit("DOMICILIO"), Spaces, Lit("EN"), Spaces, DomicilioCaptura>>)

PatronesDomicilio == <<PatDomiciliado, PatConDomicilio, PatDomicilio>>

extract_domicilios(t) == Collect(PatronesDomicilio, 1, normalize_spaces(t), <<>>)

\* r"(JUZGADO\s+[A-Z<..>0-9\s\-DELCIVILRA\.]+)"
PatJuzgado ==
    Grp(1, Cat(<<Lit("JUZGADO"), Spaces,
                 Plus(Set(IgnoreCase(Range(UpperAscii)
                                       \cup {SQRT, A_RING, a_circ, c_ced, i_grave, o_uml,
                                             u_acute, e_uml}
                                       \cup Digits \cup Whitespace \cup {"-", "."})))>>))

PatronesJuzgado == <<PatJuzgado>>

extract_juzgados(t) == Collect(PatronesJuzgado, 1, normalize_spaces(t), <<>>)

CausaClase == IgnoreCase(Range(UpperAscii) \cup Digits \cup {".", "-", "/"})

PatCausa1 ==
    Cat(<<Lit("CAUSA"), Spaces, Lit("ROL"), Spaces, OptNumeroSigno, OptSpaces,
          Grp(1, Plus(Set(CausaClase)))>>)
PatCausa2 ==
    Cat(<<Lit("CAUSA"), Spaces, Lit("ROL"), Spaces, Grp(1, Plus(Set(CausaClase)))>>)

PatronesCausa == <<PatCausa1, PatCausa2>>

extract_causas_rol(t) == Collect(PatronesCausa, 1, normalize_spaces(t), <<>>)

-----------------------------------------------------------------------------
(* text_parsers.py: folio, inscription number, year *)

\* the width of the window after FOJAS
FojasWindow == 80

\* r"FOJAS\s+(.{0,80})"
PatFojasCtx == Cat(<<Lit("FOJAS"), Spaces, Grp(1, Between(AnyChar, 0, FojasWindow))>>)

\* r"\b(VTA\.?|VUELTA)\b"
PatVuelta ==
    Cat(<<WordBoundary,
          Grp(1, Alt(<<Cat(<<Lit("VTA"), Opt(Set({"."}))>>), Lit("VUELTA")>>)),
          WordBoundary>>)

\* r"FOJAS\s+([A-Z<..> ]+?)(?:\s+VTA\.?|\s+VUELTA|\s+NUMERO|\s+N[<..>]|\s+DEL\s+REGISTRO)"
PatFojasText ==
    Cat(<<Lit("FOJAS"), Spaces, Grp(1, LazyPlus(Set(LetrasClase))),
          Alt(<<Cat(<<Spaces, Lit("VTA"), Opt(Set({"."}))>>),
                Cat(<<Spaces, Lit("VUELTA")>>),
                Cat(<<Spaces, Lit("NUMERO")>>),
                Cat(<<Spaces, NumeroSigno>>),
                Cat(<<Spaces, Lit("DEL"), Spaces, Lit("REGISTRO")>>)>>)>>)

\* r"\bVUELTA\b"
PatVueltaWord == Cat(<<WordBoundary, Lit("VUELTA"), WordBoundary>>)

\* r"FOJAS\s+([0-9\.]+)"
PatFojasNum == Cat(<<Lit("FOJAS"), Spaces, Grp(1, Plus(Set(Digits \cup {"."})))>>)

\* r"NUMERO\s+([A-Z<..> ]+?)(?:\s+DEL\s+REGISTRO|\s+DEL\s+A[N<..>]O|\s+DEL\s+A<..>O)"
PatNumText ==
    Cat(<<Lit("NUMERO"), Spaces, Grp(1, LazyPlus(Set(LetrasClase))),
          Alt(<<Cat(<<Spaces, Lit("DEL"), Spaces, Lit("REGISTRO")>>),
                Cat(<<Spaces, Lit("DEL"), Spaces, AnioVariantes>>),
                Cat(<<Spaces, Lit("DEL"), Spaces, AnioDoble>>)>>)>>)

\* r"NUMERO\s+([0-9\.]+)"
PatNumNum == Cat(<<Lit("NUMERO"), Spaces, Grp(1, Plus(Set(Digits \cup {"."})))>>)

\* r"DEL\s+A[N<..>]O\s+([A-Z<..> ]+?)(?:[\,\.;]|$)"
PatAnioText ==
    Cat(<<Lit("DEL"), Spaces, AnioVariantes, Spaces, Grp(1, LazyPlus(Set(LetrasClase))),
          Alt(<<Set({",", ".", ";"}), EndOfString>>)>>)

\* r"DEL\s+A[N<..>]O\s+([0-9]{4})"
PatAnioNum ==
    Cat(<<Lit("DEL"), Spaces, AnioVariantes, Spaces, Grp(1, Between(Digit, 4, 4))>>)

\* re.sub(pattern, "", s)
RECURSIVE RemoveMatches(_, _, _)
RemoveMatches(s, ms, from) ==
    IF ms = <<>> THEN SubSeq(s, from, Len(s))
    ELSE SubSeq(s, from, Head(ms).s - 1) \o RemoveMatches(s, Tail(ms), Head(ms).e)

Remove(r, s) == RemoveMatches(s, FindIter(r, s), 1)

\* s.replace(c, "")
Without(s, c) == SelectSeq(s, LAMBDA x : x # c)

DigitValue(c) == CHOOSE d \in 0..9 : Chars("0123456789")[d + 1] = c

RECURSIVE DecimalValue(_, _)
DecimalValue(ds, n) ==
    IF ds = <<>> THEN n ELSE DecimalValue(Tail(ds), 10 * n + DigitValue(Head(ds)))

\* int(s): the value, or the ValueError it raises
ParseInt(s) ==
    IF s # <<>> /\ \A i \in DOMAIN s : s[i] \in Digits
    THEN [error |-> FALSE, value |-> DecimalValue(s, 0)]
    ELSE [error |-> TRUE, value |-> 0]

\* try: v = int(s) / except ValueError: v = None, with the except clause left out
TryInt_NoExcept(s) ==
    Let(ParseInt(s), LAMBDA n :
        [raised |-> n.error, v |-> IF n.error THEN None ELSE Some(n.value)])

\* try: v = int(s) / except ValueError: v = None
TryInt(s) ==
    Let(ParseInt(s), LAMBDA n :
        [raised |-> FALSE, v |-> IF n.error THEN None ELSE Some(n.value)])

NotRaised(v) == [raised |-> FALSE, v |-> v]

\* lines 199-206 with fojas_vuelta starting as None
FojasVuelta_NoneByDefault(norm) ==
    Let(Search(PatFojasCtx, norm), LAMBDA m_fojas_ctx :
        IF m_fojas_ctx # None /\ Search(PatVuelta, Group(norm, m_fojas_ctx[1], 1)) # None
        THEN Some(Chars("vta"))
        ELSE None)

\* lines 199-206 keeping the word that matched
FojasVuelta_MatchedWord(norm) ==
    Let(Search(PatFojasCtx, norm), LAMBDA m_fojas_ctx :
        Let(IF m_fojas_ctx = None THEN <<>> ELSE Group(norm, m_fojas_ctx[1], 1), LAMBDA ctx :
            Let(Search(PatVuelta, ctx), LAMBDA m_vuelta :
                IF m_fojas_ctx # None /\ m_vuelta # None
                THEN Some(Lower(Group(ctx, m_vuelta[1], 1)))
                ELSE Some(<<>>))))

\* lines 199-206
FojasVuelta(norm) ==
    Let(Search(PatFojasCtx, norm), LAMBDA m_fojas_ctx :
        IF m_fojas_ctx # None /\ Search(PatVuelta, Group(norm, m_fojas_ctx[1], 1)) # None
        THEN Some(Chars("vta"))
        ELSE Some(<<>>))

\* lines 211-230 with the digit run tried first and the word span as backup
FojasVal_DigitsFirst(norm) ==
    Let(Search(PatFojasNum, norm), LAMBDA m_fojas_num :
        IF m_fojas_num # None
        THEN TryInt(Without(Group(norm, m_fojas_num[1], 1), "."))
        ELSE Let(Search(PatFojasText, norm), LAMBDA m_fojas_text :
                 IF m_fojas_text # None
                 THEN Let(Strip(Remove(PatVueltaWord, Strip(Group(norm, m_fojas_text[1], 1)))),
                          LAMBDA palabra_fojas :
                              NotRaised(IF palabra_fojas # <<>>
                                        THEN text_number_to_int(palabra_fojas)
                                        ELSE None))
                 ELSE NotRaised(None)))

\* lines 211-230
FojasVal(norm) ==
    Let(Search(PatFojasText, norm), LAMBDA m_fojas_text :
        IF m_fojas_text # None
        THEN Let(Strip(Remove(PatVueltaWord, Strip(Group(norm, m_fojas_text[1], 1)))),
                 LAMBDA palabra_fojas :
                     NotRaised(IF palabra_fojas # <<>> THEN text_number_to_int(palabra_fojas)
                               ELSE None))
        ELSE Let(Search(PatFojasNum, norm), LAMBDA m_fojas_num :
                 IF m_fojas_num # None
                 THEN TryInt(Without(Group(norm, m_fojas_num[1], 1), "."))
                 ELSE NotRaised(None)))

\* lines 235-250
NumVal(norm) ==
    Let(Search(PatNumText, norm), LAMBDA m_num_text :
        IF m_num_text # None
        THEN NotRaised(text_number_to_int(Strip(Group(norm, m_num_text[1], 1))))
        ELSE Let(Search(PatNumNum, norm), LAMBDA m_num_num :
                 IF m_num_num # None
                 THEN TryInt(Without(Group(norm, m_num_num[1], 1), "."))
                 ELSE NotRaised(None)))

\* lines 255-271
AnioVal(norm) ==
    Let(Search(PatAnioText, norm), LAMBDA m_anio_text :
        IF m_anio_text # None
        THEN NotRaised(text_number_to_int(Strip(Group(norm, m_anio_text[1], 1))))
        ELSE Let(Search(PatAnioNum, norm), LAMBDA m_anio_num :
                 IF m_anio_num # None
                 THEN TryInt(Group(norm, m_anio_num[1], 1))
                 ELSE NotRaised(None)))

\* the tuple returned, and whether an exception left the function instead
FojasTuple(f, n, a, vuelta) ==
    [raised |-> f.raised \/ n.raised \/ a.raised,
     fojas |-> f.v,
     numero_inscripcion |-> n.v,
     anio_inscripcion |-> a.v,
     fojas_vuelta |-> vuelta]

extract_fojas_numero_anio(t) ==
    Let(normalize_spaces(t), LAMBDA norm :
        FojasTuple(FojasVal(norm), NumVal(norm), AnioVal(norm), FojasVuelta(norm)))

-----------------------------------------------------------------------------
(* text_parsers.py: UTM coordinates *)

\* the characters allowed between the two values of a pair
UtmGap == 80

CoordClase == Digits \cup {".", ","}
Etiqueta(inicial, resto) == Cat(<<Lit(inicial), Opt(Lit(resto))>>)
Separador == Star(Set(Whitespace \cup {":", "="}))
Metros == Opt(Cat(<<OptSpaces, Alt(<<Lit("METROS"), Lit("M")>>)>>))

\* group 1 is (?P<norte>...), group 2 is (?P<este>...)
PatNorteEste ==
    Cat(<<Etiqueta("N", "ORTE"), Separador, Grp(1, Plus(Set(CoordClase))), Metros,
          LazyBetween(AnyChar, 0, UtmGap),
          Etiqueta("E", "STE"), Separador, Grp(2, Plus(Set(CoordClase)))>>)
PatEsteNorte ==
    Cat(<<Etiqueta("E", "STE"), Separador, Grp(2, Plus(Set(CoordClase))), Metros,
          LazyBetween(AnyChar, 0, UtmGap),
          Etiqueta("N", "ORTE"), Separador, Grp(1, Plus(Set(CoordClase)))>>)

PatronesUtm == <<PatNorteEste, PatEsteNorte>>

\* s.replace(".", "").replace(",", ".")
CleanCoord(raw) ==
    Let(Without(raw, "."), LAMBDA s : [i \in DOMAIN s |-> IF s[i] = "," THEN "." ELSE s[i]])

RECURSIVE DropTrailingZeros(_)
DropTrailingZeros(ds) ==
    IF ds # <<>> /\ ds[Len(ds)] = "0" THEN DropTrailingZeros(SubSeq(ds, 1, Len(ds) - 1)) ELSE ds

\* float(s) for a string of digits and points: the number as its integer part
\* and its decimals, or the ValueError it raises
ParseFloat(s) ==
    LET points == {i \in DOMAIN s : s[i] = "."}
        cut == IF points = {} THEN Len(s) + 1 ELSE CHOOSE i \in points : TRUE
    IN  IF Cardinality(points) <= 1 /\ Len(s) > Cardinality(points)
        THEN [error |-> FALSE,
              value |-> [units |-> DecimalValue(SubSeq(s, 1, cut - 1), 0),
                         decimals |-> DropTrailingZeros(SubSeq(s, cut + 1, Len(s)))]]
        ELSE [error |-> TRUE, value |-> [units |-> 0, decimals |-> <<>>]]

\* float(n) for an integer n
FloatOfInt(n) == [units |-> n, decimals |-> <<>>]

Vertex(n, e, source) == [norte |-> n, este |-> e, source |-> source]

\* the body of the loop over the matches: the vertex appended, if one is
VertexOf(n, e) ==
    IF n.error \/ e.error THEN <<>> ELSE <<Vertex(n.value, e.value, "digits")>>

VertexFromMatch(norm, m) ==
    VertexOf(ParseFloat(CleanCoord(Group(norm, m, 1))),
             ParseFloat(CleanCoord(Group(norm, m, 2))))

RECURSIVE VerticesFromMatches(_, _)
VerticesFromMatches(norm, ms) ==
    IF ms = <<>> THEN <<>>
    ELSE VertexFromMatch(norm, Head(ms)) \o VerticesFromMatches(norm, Tail(ms))

RECURSIVE UtmFromPatterns(_, _, _)
UtmFromPatterns(pats, k, norm) ==
    IF k > Len(pats) THEN <<>>
    ELSE VerticesFromMatches(norm, FindIter(pats[k], norm)) \o UtmFromPatterns(pats, k + 1, norm)

extract_utm_from_numbers(t) == UtmFromPatterns(PatronesUtm, 1, normalize_spaces(t))

\* [a-z<..>\s] as the file spells it
PalabrasClase ==
    IgnoreCase(Range(LowerAscii)
                 \cup {SQRT, DEGREE, COPYR, NOTEQ, GTEQ, INTEGR, ORDM, PLUSMN}
                 \cup Whitespace)

\* r"NORTE\s+([<..>]+?)\s+COMA.*?(?:ESTE|E)\s+([<..>]+?)\s+COMA" with re.DOTALL
PatUtmWords ==
    Cat(<<Lit("NORTE"), Spaces, Grp(1, LazyPlus(Set(PalabrasClase))), Spaces, Lit("COMA"),
          LazyStar(NotSet({})), Alt(<<Lit("ESTE"), Lit("E")>>), Spaces,
          Grp(2, LazyPlus(Set(PalabrasClase))), Spaces, Lit("COMA")>>)

WordVertexOf(n_val, e_val) ==
    IF n_val # None /\ e_val # None
    THEN <<Vertex(FloatOfInt(n_val[1]), FloatOfInt(e_val[1]), "words")>>
    ELSE <<>>

WordVertexFromMatch(norm, m) ==
    WordVertexOf(text_number_to_int(Strip(Group(norm, m, 1))),
                 text_number_to_int(Strip(Group(norm, m, 2))))

RECURSIVE WordVerticesFromMatches(_, _)
WordVerticesFromMatches(norm, ms) ==
    IF ms = <<>> THEN <<>>
    ELSE WordVertexFromMatch(norm, Head(ms)) \o WordVerticesFromMatches(norm, Tail(ms))

extract_utm_from_words(t) ==
    Let(normalize_spaces(t), LAMBDA norm :
        WordVerticesFromMatches(norm, FindIter(PatUtmWords, norm)))

extract_utm_vertices(t) == extract_utm_from_numbers(t) \o extract_utm_from_words(t)

-----------------------------------------------------------------------------
(* text_parsers.py: extract_all *)

ScalarKeys ==
    {"rol_nacional", "nombre_concesion", "fojas", "fojas_vuelta", "numero_inscripcion",
     "anio_inscripcion", "titular", "conservador", "fecha_texto"}
ListKeys == {"utm_vertices", "cedulas_identidad", "domicilios", "juzgados", "causas_rol"}

\* the dict returned, and whether an exception left the function instead
extract_all(t) ==
    Let(extract_fojas_numero_anio(t), LAMBDA f :
        [raised |-> f.raised,
         data |->
            [rol_nacional |-> extract_rol_nacional(t),
             nombre_concesion |-> extract_nombre_concesion(t),
             fojas |-> f.fojas,
             fojas_vuelta |-> f.fojas_vuelta,
             numero_inscripcion |-> f.numero_inscripcion,
             anio_inscripcion |-> f.anio_inscripcion,
             conservador |-> extract_conservador(t),
             fecha_texto |-> extract_fecha_texto(t),
             titular |-> extract_titular(t),
             utm_vertices |-> extract_utm_vertices(t),
             cedulas_identidad |-> extract_cedulas_identidad(t),
             domicilios |-> extract_domicilios(t),
             juzgados |-> extract_juzgados(t),
             causas_rol |-> extract_causas_rol(t)]])

-----------------------------------------------------------------------------
(* text_number_to_int, statement by statement *)

Acc == [total |-> total, current |-> current]

IsAddend(token) ==
    token \in DOMAIN UNIDADES \cup DOMAIN ESPECIALES \cup DOMAIN DECENAS \cup DOMAIN CENTENAS
IsConnector(token) == ~IsAddend(token) /\ token = "y"
IsMultiplier(token) ==
    ~IsAddend(token) /\ token # "y" /\ token \in DOMAIN MULTIPLICADORES
IsUnknown(token) ==
    ~IsAddend(token) /\ token # "y" /\ token \notin DOMAIN MULTIPLICADORES

\* lines 86-96: the two early returns, normalisation and tokenisation
NP_Tokenize ==
    /\ pc = "np_call"
    /\ IF text = <<>> \/ normalize_text_number(text) = <<>>
       THEN /\ pc' = "np_done"
            /\ result' = None
            /\ UNCHANGED <<tokens, idx, total, current>>
       ELSE /\ pc' = "np_scan"
            /\ tokens' = Words(normalize_text_number(text))
            /\ idx' = 1
            /\ total' = 0
            /\ current' = 0
            /\ UNCHANGED result
    /\ UNCHANGED <<text, parts>>
    /\ UNCHANGED pipeline

LoopBody ==
    /\ total' = ScanToken(tokens[idx], Acc).total
    /\ current' = ScanToken(tokens[idx], Acc).current
    /\ idx' = idx + 1
    /\ UNCHANGED <<pc, text, parts, tokens, result>>
    /\ UNCHANGED pipeline

\* lines 99-106
NP_Add == pc = "np_scan" /\ idx <= Len(tokens) /\ IsAddend(tokens[idx]) /\ LoopBody

\* lines 107-109
NP_Connector == pc = "np_scan" /\ idx <= Len(tokens) /\ IsConnector(tokens[idx]) /\ LoopBody

\* lines 110-116
NP_Multiplier == pc = "np_scan" /\ idx <= Len(tokens) /\ IsMultiplier(tokens[idx]) /\ LoopBody

\* lines 117-119
NP_Unknown == pc = "np_scan" /\ idx <= Len(tokens) /\ IsUnknown(tokens[idx]) /\ LoopBody

\* lines 121-123
NP_Return ==
    /\ pc = "np_scan"
    /\ idx > Len(tokens)
    /\ pc' = "np_done"
    /\ result' = ReturnTotal(Acc)
    /\ UNCHANGED <<text, parts, tokens, idx, total, current>>
    /\ UNCHANGED pipeline

(* The phrases text_number_to_int is called with *)

JoinWords(ws) == Join([i \in DOMAIN ws |-> Chars(ws[i])])

\* numerals below one thousand
Grupos ==
    { <<"un">>, <<"dos">>, <<"tres">>, <<"cinco">>, <<"doce">>, <<"dieciseis">>, <<"veinte">>,
      <<"treinta", "y", "dos">>, <<"cien">>, <<"ciento", "veinte">>, <<"doscientos">>,
      <<"cuatrocientos", "cincuenta", "y", "dos">>,
      <<"novecientos", "noventa", "y", "nueve">> }
GruposPlural == Grupos \ {<<"un">>}

ParteMillones ==
    {<<>>, <<"un", "millon">>, <<"mil", "millones">>}
        \cup {g \o <<"millones">> : g \in GruposPlural}
ParteMiles == {<<>>, <<"mil">>} \cup {g \o <<"mil">> : g \in GruposPlural}
ParteResto == {<<>>, <<"uno">>} \cup Grupos

\* well-formed Spanish cardinal numerals written with the words of the five tables
Numerales ==
    ({m \o t \o r : m \in ParteMillones, t \in ParteMiles, r \in ParteResto} \ {<<>>})
        \cup {<<"cero">>}

\* the same numerals as they are printed: capitals and accents
Impresos ==
    { Chars("Un Mill") \o <<o_acute>> \o Chars("n"),
      Chars("DIECIS") \o <<E_ACUTE>> \o Chars("IS MIL"),
      Chars("Treinta y Dos"),
      Chars("  doce\tmil\n") }

RuidoBase ==
    { <<>>, <<"doce", "mil">>, <<"treinta", "y", "dos">>, <<"un", "millon">>,
      <<"cinco", "millones", "doscientos", "mil">>, <<"mil">>, <<"cero">>,
      <<"tres", "mil", "cuatrocientos", "cincuenta", "y", "dos">> }
Ruido == {"y", "de", "veintidos"}

\* how many tokens are inserted into a phrase
MaxRuido == 2

InsertAt(ws, w, k) == SubSeq(ws, 1, k) \o <<w>> \o SubSeq(ws, k + 1, Len(ws))

RECURSIVE ConRuido(_)
ConRuido(n) ==
    IF n = 0 THEN RuidoBase
    ELSE ConRuido(n - 1)
           \cup {InsertAt(ws, w, k) : <<ws, w, k>> \in
                    {x \in ConRuido(n - 1) \X Ruido \X (0..10) : x[3] <= Len(x[1])}}

NumberInputs ==
    {JoinWords(ws) : ws \in Numerales} \cup Impresos
        \cup {JoinWords(ws) : ws \in ConRuido(MaxRuido)}
        \cup {Chars("12.5"), Chars(" ")}

InitNumber ==
    /\ pc = "np_call"
    /\ text \in NumberInputs
    /\ parts = <<>>
    /\ tokens = <<>>
    /\ idx = 1
    /\ total = 0
    /\ current = 0
    /\ result = None
    /\ NoPipeline

NextNumber ==
    \/ NP_Tokenize
    \/ NP_Add
    \/ NP_Connector
    \/ NP_Multiplier
    \/ NP_Unknown
    \/ NP_Return

SpecNumber == InitNumber /\ [][NextNumber]_vars

-----------------------------------------------------------------------------
(* The value a Spanish numeral names, by its grammar:                       *)
(*   [below-a-million "millones"] [below-a-thousand "mil"] [below-a-thousand] *)

WordValue(w) ==
    IF w \in DOMAIN UNIDADES THEN UNIDADES[w]
    ELSE IF w \in DOMAIN ESPECIALES THEN ESPECIALES[w]
    ELSE IF w \in DOMAIN DECENAS THEN DECENAS[w]
    ELSE IF w \in DOMAIN CENTENAS THEN CENTENAS[w]
    ELSE 0

RECURSIVE GroupValue(_)
GroupValue(g) == IF g = <<>> THEN 0 ELSE WordValue(Head(g)) + GroupValue(Tail(g))

Positions(ws, set) == {i \in DOMAIN ws : ws[i] \in set}
Before(ws, k) == SubSeq(ws, 1, k - 1)
After(ws, k) == SubSeq(ws, k + 1, Len(ws))

BelowMillion(ws) ==
    LET at == Positions(ws, {"mil"})
    IN  IF at = {} THEN GroupValue(ws)
        ELSE LET k == CHOOSE i \in at : TRUE
             IN  (IF k = 1 THEN 1 ELSE GroupValue(Before(ws, k))) * 1000
                     + GroupValue(After(ws, k))

SpanishValue(ws) ==
    LET at == Positions(ws, {"millon", "millones"})
    IN  IF at = {} THEN BelowMillion(ws)
        ELSE LET k == CHOOSE i \in at : TRUE
             IN  BelowMillion(Before(ws, k)) * 1000000 + BelowMillion(After(ws, k))

\* C1 as stated: for every well-formed numeral made of recognized words,
\* text_number_to_int returns the integer the numeral names.
C1_EveryNumeralExact ==
    (pc = "np_done" /\ tokens \in Numerales) => result = Some(SpanishValue(tokens))

\* C1 amended: for every well-formed numeral made of recognized words that names
\* a value from 1 to 999 999 999, text_number_to_int returns exactly that value.
C1_NumeralExactBelowMilMillones ==
    (pc = "np_done" /\ tokens \in Numerales
        /\ SpanishValue(tokens) >= 1 /\ SpanishValue(tokens) <= 999999999)
      => result = Some(SpanishValue(tokens))

C1_Witness ==
    /\ pc = "np_done"
    /\ tokens = <<"novecientos", "noventa", "y", "nueve", "mil",
                  "novecientos", "noventa", "y", "nueve">>
    /\ result = Some(999999)

\* the tokens the scan is claimed to ignore
Ignored(token) == IsConnector(token) \/ IsUnknown(token)

RECURSIVE Kept(_)
Kept(ws) ==
    IF ws = <<>> THEN <<>>
    ELSE IF Ignored(Head(ws)) THEN Kept(Tail(ws))
    ELSE <<Head(ws)>> \o Kept(Tail(ws))

\* C10: an unrecognized token and the connector "y" leave total and current as
\* they were: at every point of the scan the accumulators are those of the
\* tokens scanned so far with the ignored ones removed, and the value returned
\* is the value returned for the phrase without them.
C10_IgnoredTokensChangeNothing ==
    /\ pc = "np_scan" =>
          Acc = ScanTokens(Kept(SubSeq(tokens, 1, idx - 1)), [total |-> 0, current |-> 0])
    /\ (pc = "np_done" /\ tokens # <<>>) => result = text_number_to_int(JoinWords(Kept(tokens)))

C10_Witness ==
    /\ pc = "np_done"
    /\ \E i, j \in DOMAIN tokens : i < j /\ IsUnknown(tokens[i]) /\ tokens[j] = "y"
    /\ result = Some(3452)

\* C11: text_number_to_int returns null exactly when its input is empty,
\* normalizes to empty, or scans to a total of zero; every other result is a
\* strictly positive integer, and the accumulators are never negative.
C11_NullExactlyWhenZero ==
    /\ total >= 0 /\ current >= 0
    /\ pc = "np_done" =>
          /\ result = text_number_to_int(text)
          /\ (result = None) <=>
                 (text = <<>> \/ normalize_text_number(text) = <<>> \/ total + current = 0)
          /\ result # None => (result[1] \in Int /\ result[1] > 0)

C11_Witness ==
    /\ pc = "np_done"
    /\ text # <<>>
    /\ tokens = <<"de", "cero", "veintidos">>
    /\ total + current = 0
    /\ result = None

\* the magnitude of a multiplier word
Factor(token) ==
    IF token = "mil" THEN 1000 ELSE 1000000

\* what the step on a multiplier token is claimed to do
MultiplierEffect ==
    /\ total' = total + (IF current = 0 THEN 1 ELSE current) * Factor(tokens[idx])
    /\ current' = 0

\* C13: a multiplier token multiplies only `current` (1 when it is 0), adds the
\* product to `total` and resets `current`; what `total` held before is not
\* multiplied, so 'mil' alone is 1000 and 'mil millones' is 1000 + 1000000,
\* not 1000000000.
C13_MultiplierScalesCurrentOnly ==
    /\ [][(pc = "np_scan" /\ idx <= Len(tokens)
              /\ tokens[idx] \in {"mil", "millon", "millones"}) => MultiplierEffect]_vars
    /\ [](pc = "np_done" =>
            /\ tokens = <<"mil">> => result = Some(1000)
            /\ tokens = <<"mil", "millones">> => result = Some(1001000))

C13_Witness ==
    /\ pc = "np_done"
    /\ tokens = <<"mil", "millones">>
    /\ total = 1001000
    /\ current = 0
    /\ result = Some(1001000)

-----------------------------------------------------------------------------
(* Normalising a text, and normalising what came out *)

\* the longest text normalised, and how often it is normalised again
MaxNormLen == 3
MaxApply == 2

NormAlphabet == {"a", "B", "7", " ", "\n", e_acute, N_TILDE}

RECURSIVE TextsUpTo(_, _)
TextsUpTo(alphabet, n) ==
    IF n = 0 THEN {<<>>}
    ELSE TextsUpTo(alphabet, n - 1)
           \cup {Append(t, c) : t \in TextsUpTo(alphabet, n - 1), c \in alphabet}

InitNormalize ==
    /\ pc = "norm_call"
    /\ text \in TextsUpTo(NormAlphabet, MaxNormLen)
    /\ parts = <<>>
    /\ tokens = <<>>
    /\ idx = 0
    /\ total = 0
    /\ current = 0
    /\ result = None
    /\ NoPipeline

\* text = _normalize_spaces(text); result remembers the argument
ApplyNormalizeSpaces ==
    /\ pc \in {"norm_call", "norm_spaces"}
    /\ idx < MaxApply
    /\ result' = Some(text)
    /\ text' = normalize_spaces(text)
    /\ idx' = idx + 1
    /\ pc' = "norm_spaces"
    /\ UNCHANGED <<parts, tokens, total, current>>
    /\ UNCHANGED pipeline

\* text = normalize_text_number(text); result remembers the argument
ApplyNormalizeTextNumber ==
    /\ pc \in {"norm_call", "norm_number"}
    /\ idx < MaxApply
    /\ result' = Some(text)
    /\ text' = normalize_text_number(text)
    /\ idx' = idx + 1
    /\ pc' = "norm_number"
    /\ UNCHANGED <<parts, tokens, total, current>>
    /\ UNCHANGED pipeline

NextNormalize == ApplyNormalizeSpaces \/ ApplyNormalizeTextNumber

SpecNormalize == InitNormalize /\ [][NextNormalize]_vars

\* C9: normalising a text that one of the two normalisers has already
\* normalised returns it unchanged.
C9_NormalizationIdempotent ==
    (pc \in {"norm_spaces", "norm_number"} /\ idx >= 2) => Some(text) = result

\* a second normalisation has run on a text the first one had to change
C9_Witness ==
    /\ pc = "norm_number"
    /\ idx = 2
    /\ text = <<"a", " ", "b">>

-----------------------------------------------------------------------------
(* extract_fojas_numero_anio on the texts of an inscription *)

\* a number as digits and as words
Numero(value, digits, words) == [value |-> value, digits |-> Chars(digits), words |-> words]

FojasNumeros ==
    { Numero(7, "7", Chars("SIETE")),
      Numero(1234, "1.234", Chars("MIL DOSCIENTOS TREINTA Y CUATRO")),
      Numero(22, "22", Chars("VEINTIDOS")) }
InscripcionNumeros ==
    { Numero(5, "5", Chars("CINCO")),
      Numero(16, "16", Chars("DIECIS") \o <<E_ACUTE>> \o Chars("IS")) }
Anios ==
    { Numero(2020, "2020", Chars("DOS MIL VEINTE")),
      Numero(1998, "1998", Chars("MIL NOVECIENTOS NOVENTA Y OCHO")) }

Vueltas == {<<>>, Chars(" VUELTA"), Chars(" VTA.")}
PalabraAnio == {Chars("A") \o <<N_TILDE>> \o Chars("O"), Chars("ANO")}
Formas == {"digits", "words"}

Escrito(num, forma) == IF forma = "digits" THEN num.digits ELSE num.words

\* 'FOJAS <f> [VUELTA|VTA] NUMERO <n> DEL REGISTRO ... DEL A<N tilde>O <y>'
Inscripcion(p) ==
    Chars("FOJAS ") \o Escrito(p.f, p.forma[1]) \o p.vuelta
        \o Chars(" NUMERO ") \o Escrito(p.n, p.forma[2])
        \o Chars(" DEL REGISTRO DE PROPIEDAD DEL ") \o p.anio \o <<" ">>
        \o Escrito(p.y, p.forma[3])

InscripcionParts ==
    [f : FojasNumeros, n : InscripcionNumeros, y : Anios, vuelta : Vueltas,
     anio : PalabraAnio, forma : Formas \X Formas \X Formas]

Idle == /\ tokens = <<>> /\ idx = 0 /\ total = 0 /\ current = 0

InitFojas ==
    /\ pc = "call"
    /\ parts \in InscripcionParts
    /\ text = Inscripcion(parts)
    /\ Idle
    /\ result = None
    /\ NoPipeline

ExtractFojas ==
    /\ pc = "call"
    /\ result' = Some(extract_fojas_numero_anio(text))
    /\ pc' = "fojas_done"
    /\ UNCHANGED <<text, parts, tokens, idx, total, current>>
    /\ UNCHANGED pipeline

NextFojas == ExtractFojas

SpecFojas == InitFojas /\ [][NextFojas]_vars

\* C6 as stated: folio, inscription number and year come out as the integers
\* written, the same for digits and for words, and fojas_vuelta is "vta"
\* exactly when VUELTA or VTA follows the folio.
C6_FojasNumeroAnioExact ==
    pc = "fojas_done" =>
        /\ result[1].fojas = Some(parts.f.value)
        /\ result[1].numero_inscripcion = Some(parts.n.value)
        /\ result[1].anio_inscripcion = Some(parts.y.value)
        /\ result[1].fojas_vuelta = Some(IF parts.vuelta = <<>> THEN <<>> ELSE Chars("vta"))

-----------------------------------------------------------------------------
(* extract_fojas_numero_anio on folios written with digits and words mixed *)

\* how many numbers follow the first FOJAS
MaxItems == 2

Item(kind, txt, value) == [kind |-> kind, txt |-> Chars(txt), value |-> value]

Items ==
    { Item("digits", "12", 12), Item("digits", "1.234", 1234),
      Item("words", "SIETE", 7), Item("words", "CIEN", 100) }

ItemSeqs(n) == UNION {[1..k -> Items] : k \in 1..n}

Cierres == {Chars(" NUMERO 5"), Chars(" VUELTA NUMERO 5")}

\* a second inscription later in the same text
Segundas ==
    { <<>>,
      <<[items |-> <<Item("digits", "45", 45)>>, cierre |-> Chars(" NUMERO 6")]>>,
      <<[items |-> <<Item("words", "TRES", 3)>>, cierre |-> Chars(" NUMERO 6")]>> }

ItemsTexto(its) == Join([k \in DOMAIN its |-> its[k].txt])

\* 'FOJAS <item> <item> [VUELTA] NUMERO 5'
FojasMencion(m) == Chars("FOJAS ") \o ItemsTexto(m.items) \o m.cierre

MencionesTexto(ms) == Join([k \in DOMAIN ms |-> FojasMencion(ms[k])])

FojasMenciones ==
    { <<[items |-> its, cierre |-> c]>> \o seg :
        its \in ItemSeqs(MaxItems), c \in Cierres, seg \in Segundas }

InitPrefer ==
    /\ pc = "call"
    /\ parts \in FojasMenciones
    /\ text = MencionesTexto(parts)
    /\ Idle
    /\ result = None
    /\ NoPipeline

SpecPrefer == InitPrefer /\ [][NextFojas]_vars

OnlyWords(m) == \A k \in DOMAIN m.items : m.items[k].kind = "words"
DigitsFirst(m) == m.items[1].kind = "digits"
HasDigits(m) == \E k \in DOMAIN m.items : m.items[k].kind = "digits"
FirstDigits(m) ==
    m.items[CHOOSE k \in DOMAIN m.items :
                /\ m.items[k].kind = "digits"
                /\ \A j \in 1..(k - 1) : m.items[j].kind # "digits"].value

Leftmost(ms, P(_)) == ms[CHOOSE k \in DOMAIN ms : P(ms[k]) /\ \A j \in 1..(k - 1) : ~P(ms[j])]

-----------------------------------------------------------------------------
(* extract_titular on texts made of ownership clauses *)

MaxClausulas == 2

JuanPerez == Chars("Juan Perez Gonzalez")
JuanPerezAcentos == Chars("Juan P") \o <<e_acute>> \o Chars("rez Gonz") \o <<a_acute>> \o Chars("lez")
MineraCurauma == Chars("Minera Curauma Ltda")

Nombres ==
    { JuanPerez, JuanPerezAcentos, MineraCurauma, Chars("Ana Soto"), Chars("Pedro"),
      Chars("La Escondida Ltda") }

Formulas ==
    { Chars("INSCRIPCION DE MENSURA \"UNO 1\" DE "), Chars("A NOMBRE DE "), Chars("TITULAR ") }

Clausulas == [formula : Formulas, nombre : Nombres]

ClausulaTexto(c) == c.formula \o c.nombre \o <<",">>

TextoDe(ps, Texto(_)) == Join([k \in DOMAIN ps |-> Texto(ps[k])])

InitTitular ==
    /\ pc = "call"
    /\ parts \in TextsUpTo(Clausulas, MaxClausulas)
    /\ text = TextoDe(parts, ClausulaTexto)
    /\ Idle
    /\ result = None
    /\ NoPipeline

ExtractTitular ==
    /\ pc = "call"
    /\ result' = Some(extract_titular(text))
    /\ pc' = "titular_done"
    /\ UNCHANGED <<text, parts, tokens, idx, total, current>>
    /\ UNCHANGED pipeline

NextTitular == ExtractTitular

SpecTitular == InitTitular /\ [][NextTitular]_vars

NombresDe(ps) == {ps[k].nombre : k \in DOMAIN ps}

\* C4: the holder returned is the surviving candidate of highest score, the
\* first discovered among equals, and null when no candidate survives the
\* filter; 'Minera Curauma Ltda' (6) wins over 'Juan Perez Gonzalez' (1) in
\* either order of discovery.
C4_HighestScoreFirstDiscovered ==
    pc = "titular_done" =>
        LET candidatos == TitularCandidatos(normalize_spaces(text))
            validos == SelectSeq(candidatos, es_titular_valido)
            score(k) == score_titular(StripPunct(validos[k]))
            mejor(k) == \A j \in DOMAIN validos : score(j) <= score(k)
            primero == CHOOSE k \in DOMAIN validos : mejor(k) /\ \A j \in 1..(k - 1) : ~mejor(j)
        IN  /\ IF validos = <<>> THEN result[1] = None
               ELSE result[1] = Some(Title(StripPunct(validos[primero])))
            /\ {JuanPerez, MineraCurauma} \subseteq NombresDe(parts)
                   => result[1] = Some(MineraCurauma)
            /\ (NombresDe(parts) = {JuanPerez, Chars("Ana Soto")}
                  /\ \A k \in DOMAIN parts : parts[k].formula = parts[1].formula)
                   => result[1] = Some(parts[1].nombre)

C4_Witness ==
    /\ pc = "titular_done"
    /\ Len(parts) = 2
    /\ parts[1].nombre = JuanPerez
    /\ parts[2].nombre = MineraCurauma
    /\ score_titular(JuanPerez) = 1
    /\ score_titular(MineraCurauma) = 6
    /\ result[1] = Some(MineraCurauma)

-----------------------------------------------------------------------------
(* the candidates of extract_titular, phrasing by phrasing *)

\* how many ownership phrases a text holds
MaxFrases == 2

Disparadores ==
    { Chars("INSCRIPCION DE MENSURA \"UNO 1\" DE "), Chars("A NOMBRE DE "),
      Chars("DE PROPIEDAD DE "), Chars("TITULAR ") }

Titulares == {Chars("JUAN PEREZ"), Chars("MINERA CURAUMA S.A"), Chars("ANA SOTO & CIA")}

DelAnio == Chars(" DEL A") \o <<N_TILDE>> \o Chars("O 2020,")

Delimitadores == {Chars(","), Chars(" INSCRITA EL"), Chars(" ROLANTE A"), DelAnio}

Frases == [disparador : Disparadores, nombre : Titulares, fin : Delimitadores]

FraseTexto(f) == f.disparador \o f.nombre \o f.fin

FrasesTexto(fs) == Join([k \in DOMAIN fs |-> FraseTexto(fs[k])])

InitCandidatos ==
    /\ pc = "call"
    /\ parts \in UNION {[1..k -> Frases] : k \in 1..MaxFrases}
    /\ text = FrasesTexto(parts)
    /\ Idle
    /\ result = None
    /\ NoPipeline

\* lines 92-117: the list `candidatos` before the filter
ExtractCandidatos ==
    /\ pc = "call"
    /\ result' = Some(TitularCandidatos(normalize_spaces(text)))
    /\ pc' = "candidatos_done"
    /\ UNCHANGED <<text, parts, tokens, idx, total, current>>
    /\ UNCHANGED pipeline

NextCandidatos == ExtractCandidatos

SpecCandidatos == InitCandidatos /\ [][NextCandidatos]_vars

\* C15 as stated: every phrase gives one candidate, the text between its
\* trigger and the comma, INSCRITA, ROLANTE or DEL A<N tilde>O that follows,
\* and a candidate is cut nowhere else.
C15_CandidatesReachDelimiter ==
    pc = "candidatos_done" =>
        /\ Len(result[1]) = Len(parts)
        /\ Range(result[1]) = {parts[k].nombre : k \in DOMAIN parts}

-----------------------------------------------------------------------------
(* the four list extractors on texts made of mentions *)

MaxMenciones == 2

Menciones ==
    { Chars("RUT 1-9"), Chars("CEDULA DE IDENTIDAD N 2-7"),
      Chars("DOMICILIADO EN CALLE UNO 12,"), Chars("CON DOMICILIO EN PASAJE DOS;"),
      Chars("JUZGADO CIVIL DE SANTIAGO,"), Chars("JUZGADO DE LETRAS DE OVALLE;"),
      Chars("CAUSA ROL 12"), Chars("CAUSA ROL N 34") }

Mencion(m) == m

InitListas ==
    /\ pc = "call"
    /\ parts \in TextsUpTo(Menciones, MaxMenciones)
    /\ text = TextoDe(parts, Mencion)
    /\ Idle
    /\ result = None
    /\ NoPipeline

ExtractCedulas ==
    /\ pc = "call"
    /\ result' = Some(extract_cedulas_identidad(text))
    /\ pc' = "cedulas_done"
    /\ UNCHANGED <<text, parts, tokens, idx, total, current>>
    /\ UNCHANGED pipeline

ExtractDomicilios ==
    /\ pc = "call"
    /\ result' = Some(extract_domicilios(text))
    /\ pc' = "domicilios_done"
    /\ UNCHANGED <<text, parts, tokens, idx, total, current>>
    /\ UNCHANGED pipeline

ExtractJuzgados ==
    /\ pc = "call"
    /\ result' = Some(extract_juzgados(text))
    /\ pc' = "juzgados_done"
    /\ UNCHANGED <<text, parts, tokens, idx, total, current>>
    /\ UNCHANGED pipeline

ExtractCausas ==
    /\ pc = "call"
    /\ result' = Some(extract_causas_rol(text))
    /\ pc' = "causas_done"
    /\ UNCHANGED <<text, parts, tokens, idx, total, current>>
    /\ UNCHANGED pipeline

NextListas == ExtractCedulas \/ ExtractDomicilios \/ ExtractJuzgados \/ ExtractCausas

SpecListas == InitListas /\ [][NextListas]_vars

ListasDone == {"cedulas_done", "domicilios_done", "juzgados_done", "causas_done"}

PatronesDe(done) ==
    CASE done = "cedulas_done" -> PatronesCedula
      [] done = "domicilios_done" -> PatronesDomicilio
      [] done = "juzgados_done" -> PatronesJuzgado
      [] done = "causas_done" -> PatronesCausa

\* every match of every pattern of the extractor: the pattern, where the
\* captured value starts in the text, and the value
Hallazgos(pats, txt) ==
    UNION { { [pat |-> k, at |-> m.c[1][1], v |-> Strip(Group(txt, m, 1))] :
                m \in Range(FindIter(pats[k], txt)) } : k \in DOMAIN pats }

Min(S) == CHOOSE x \in S : \A y \in S : x <= y

NoDuplicates(xs) == \A i, j \in DOMAIN xs : i # j => xs[i] # xs[j]

\* C7 as stated: no value twice, and the values in the order of the place in
\* the text where each is first matched, whichever pattern matched it.
C7_NoDuplicatesTextOrder ==
    pc \in ListasDone =>
        LET hs == Hallazgos(PatronesDe(pc), normalize_spaces(text))
            FirstPos(v) == Min({h.at : h \in {x \in hs : x.v = v}})
        IN  /\ NoDuplicates(result[1])
            /\ \A i, j \in DOMAIN result[1] :
                   i < j => FirstPos(result[1][i]) < FirstPos(result[1][j])

\* C7 amended: no value twice, every captured value present, and the values
\* ordered pattern by pattern: first by the earliest pattern of the list that
\* captures the value, then by the place in the text where that pattern does.
C7_NoDuplicatesPatternOrder ==
    pc \in ListasDone =>
        LET hs == Hallazgos(PatronesDe(pc), normalize_spaces(text))
            De(v) == {x \in hs : x.v = v}
            FirstPat(v) == Min({h.pat : h \in De(v)})
            FirstPos(v) == Min({h.at : h \in {x \in De(v) : x.pat = FirstPat(v)}})
        IN  /\ NoDuplicates(result[1])
            /\ Range(result[1]) = {h.v : h \in hs} \ {<<>>}
            /\ \A i, j \in DOMAIN result[1] :
                   i < j => \/ FirstPat(result[1][i]) < FirstPat(result[1][j])
                            \/ /\ FirstPat(result[1][i]) = FirstPat(result[1][j])
                               /\ FirstPos(result[1][i]) < FirstPos(result[1][j])

C7_Witness ==
    /\ pc = "cedulas_done"
    /\ parts = <<Chars("RUT 1-9"), Chars("CEDULA DE IDENTIDAD N 2-7")>>
    /\ result[1] = <<Chars("2-7"), Chars("1-9")>>

-----------------------------------------------------------------------------
(* extract_utm_from_numbers on texts made of 'Norte d Este d' pairs *)

MaxPares == 3

Par(norte, este, n, e) ==
    [norte |-> Chars(norte), este |-> Chars(este), n |-> FloatOfInt(n), e |-> FloatOfInt(e)]

Pares ==
    { Par("6.333.850", "258.350", 6333850, 258350),
      Par("6333900", "258400", 6333900, 258400),
      Par("6.334.000,00", "258.500,00", 6334000, 258500),
      Par("1", "2", 1, 2) }

ParTexto(p) == Chars("Norte ") \o p.norte \o Chars(" Este ") \o p.este

InitUtm ==
    /\ pc = "call"
    /\ parts \in TextsUpTo(Pares, MaxPares)
    /\ text = TextoDe(parts, ParTexto)
    /\ Idle
    /\ result = None
    /\ NoPipeline

ExtractUtmFromNumbers ==
    /\ pc = "call"
    /\ result' = Some(extract_utm_from_numbers(text))
    /\ pc' = "utm_done"
    /\ UNCHANGED <<text, parts, tokens, idx, total, current>>
    /\ UNCHANGED pipeline

NextUtm == ExtractUtmFromNumbers

SpecUtm == InitUtm /\ [][NextUtm]_vars

\* C8 as stated: a text of k 'Norte d Este d' pairs yields exactly k vertices,
\* the i-th with the values of the i-th pair and source "digits".
C8_OneVertexPerPair ==
    pc = "utm_done" =>
        result[1] = [k \in DOMAIN parts |-> Vertex(parts[k].n, parts[k].e, "digits")]

-----------------------------------------------------------------------------
(* extract_all on texts made of the phrases of a deed *)

MaxFragmentos == 2

Fragmentos ==
    { Chars("FOJAS SIETE VUELTA NUMERO CINCO DEL REGISTRO DE PROPIEDAD DEL ANO DOS MIL VEINTE"),
      Chars("FOJAS 12 VTA. NUMERO 34 DEL ANO 2019"),
      Chars("FOJAS . NUMERO ."),
      Chars("Norte 6.333.850 Este 258.350"),
      Chars("N 1,2,3 E 4"),
      Chars("NORTE seis mil COMA cero ESTE dos mil COMA cero"),
      Chars("CEDULA DE IDENTIDAD N 2-7, DOMICILIADO EN CALLE UNO 12,"),
      Chars("JUZGADO DE LETRAS DE OVALLE, CAUSA ROL C-12-2020"),
      Chars("INSCRIPCION DE MENSURA \"CURAUMA 1 AL 15\" DE MINERA CURAUMA LTDA, INSCRITA EL TREINTA DE DICIEMBRE"),
      Chars("CONSERVADOR DE MINAS DE VALPARAISO ROL NACIONAL 05101-1234-5") }

Fragmento(f) == f

InitAll ==
    /\ pc = "call"
    /\ parts \in TextsUpTo(Fragmentos, MaxFragmentos)
    /\ text = TextoDe(parts, Fragmento)
    /\ Idle
    /\ result = None
    /\ NoPipeline

ExtractAll ==
    /\ pc = "call"
    /\ result' = Some(extract_all(text))
    /\ pc' = "all_done"
    /\ UNCHANGED <<text, parts, tokens, idx, total, current>>
    /\ UNCHANGED pipeline

NextAll == ExtractAll \/ ExtractFojas

SpecAll == InitAll /\ [][NextAll]_vars

NullScalars(data, keys) == \A k \in keys : data[k] = None
EmptyLists(data) == \A k \in ListKeys : data[k] = <<>>

\* C2 as stated: for the empty text every scalar field, fojas_vuelta among
\* them, is null and every list field is empty.
C2_EmptyTextAllNull ==
    (pc = "all_done" /\ text = <<>>) =>
        /\ NullScalars(result[1].data, ScalarKeys)
        /\ EmptyLists(result[1].data)

\* C2 amended: for the empty text every scalar field but fojas_vuelta is null,
\* fojas_vuelta is the empty string, and every list field is empty.
C2_EmptyTextNullButVuelta ==
    (pc = "all_done" /\ text = <<>>) =>
        /\ ~result[1].raised
        /\ NullScalars(result[1].data, ScalarKeys \ {"fojas_vuelta"})
        /\ result[1].data.fojas_vuelta = Some(<<>>)
        /\ EmptyLists(result[1].data)

C2_Witness ==
    /\ pc = "all_done"
    /\ text = <<>>
    /\ result[1].data.fojas_vuelta = Some(<<>>)

\* C3: extract_all never raises and returns exactly the fourteen keys, the
\* five list fields being lists.
C3_FourteenKeysNoRaise ==
    pc = "all_done" =>
        /\ ~result[1].raised
        /\ DOMAIN result[1].data = ScalarKeys \cup ListKeys
        /\ Cardinality(DOMAIN result[1].data) = 14
        /\ \A k \in ListKeys : DOMAIN result[1].data[k] = 1..Len(result[1].data[k])

C3_Witness ==
    /\ pc = "all_done"
    /\ parts = <<Chars("FOJAS . NUMERO .")>>
    /\ ParseInt(<<>>).error
    /\ result[1].data.fojas = None
    /\ ~result[1].raised

\* C5: fojas_vuelta, as extract_fojas_numero_anio returns it and as
\* extract_all stores it, is the empty string or "vta", never null.
C5_VueltaEmptyOrVta ==
    /\ pc = "fojas_done" => result[1].fojas_vuelta \in {Some(<<>>), Some(Chars("vta"))}
    /\ pc = "all_done" => result[1].data.fojas_vuelta \in {Some(<<>>), Some(Chars("vta"))}

C5_Witness ==
    /\ pc = "all_done"
    /\ Len(parts) = 1
    /\ Contains(text, Chars("FOJAS 12 VTA."))
    /\ result[1].data.fojas_vuelta = Some(Chars("vta"))

-----------------------------------------------------------------------------
(* pdf_loader.py and pipeline.py: a PDF, page by page *)

\* how many pages a PDF has
MaxPaginas == 2

\* what PyMuPDF reads from a page, and what Tesseract would read from its
\* image: a text, or None when pytesseract raises
Pagina(raw, ocr) == [raw |-> raw, ocr |-> ocr]

TextosDigitales == {Chars("ROL NACIONAL 05101-1234-5\n"), Chars("HOJA DOS")}
SinTexto == {<<>>, Chars(" \n")}
TextosOcr == {None, Some(<<>>), Some(Chars(" \n")), Some(Chars("FOJAS 12 VTA. NUMERO 34\n"))}

Paginas ==
    {Pagina(raw, None) : raw \in TextosDigitales}
        \cup {Pagina(raw, ocr) : raw \in SinTexto, ocr \in TextosOcr}

Documentos == UNION {[1..k -> Paginas] : k \in 1..MaxPaginas}

\* os.path.basename(filepath)
basename == Chars("doc.pdf")

\* x or ""
OrEmpty(x) == IF x = None THEN <<>> ELSE x[1]

PageInfo(page_number, txt, mode) == [page_number |-> page_number, text |-> txt, mode |-> mode]

InitPipeline ==
    /\ pc = "iter_pages"
    /\ parts \in Documentos
    /\ text = <<>>
    /\ Idle
    /\ result = None
    /\ results = <<>>
    /\ page_results = <<>>
    /\ page = 1
    /\ calls = <<>>

\* iter_pages, lines 73-84: the page has selectable text
IterDigital ==
    /\ pc = "iter_pages"
    /\ page <= Len(parts)
    /\ Strip(parts[page].raw) # <<>>
    /\ results' = Append(results, PageInfo(page, Strip(parts[page].raw), "digital"))
    /\ page' = page + 1
    /\ UNCHANGED <<pc, text, parts, tokens, idx, total, current, result, page_results, calls>>

\* iter_pages, lines 85-94: no text, the page image goes through OCR
IterOcr ==
    /\ pc = "iter_pages"
    /\ page <= Len(parts)
    /\ Strip(parts[page].raw) = <<>>
    /\ results' = Append(results, PageInfo(page, Strip(OrEmpty(parts[page].ocr)), "ocr"))
    /\ page' = page + 1
    /\ UNCHANGED <<pc, text, parts, tokens, idx, total, current, result, page_results, calls>>

\* iter_pages, line 104: return results; process_pdf starts its loop
IterReturn ==
    /\ pc = "iter_pages"
    /\ page > Len(parts)
    /\ pc' = "process_pdf"
    /\ page' = 1
    /\ UNCHANGED <<text, parts, tokens, idx, total, current, result, results, page_results, calls>>

\* {"archivo": basename, "pagina": page_number, "mode": mode, **extracted}
Registro(page_info, extracted) ==
    extracted @@ [archivo |-> basename, pagina |-> page_info.page_number, mode |-> page_info.mode]

\* process_pdf, lines 41-43 and 47-53: a page with no text
ProcessEmpty ==
    /\ pc = "process_pdf"
    /\ page <= Len(results)
    /\ results[page].text = <<>>
    /\ page_results' = Append(page_results, Registro(results[page], <<>>))
    /\ page' = page + 1
    /\ UNCHANGED <<pc, text, parts, tokens, idx, total, current, result, results, calls>>

\* process_pdf, lines 44-53: a page with text
ProcessExtract ==
    /\ pc = "process_pdf"
    /\ page <= Len(results)
    /\ results[page].text # <<>>
    /\ page_results' = Append(page_results, Registro(results[page], extract_all(results[page].text).data))
    /\ page' = page + 1
    /\ UNCHANGED <<pc, text, parts, tokens, idx, total, current, result, results, calls>>

\* process_pdf, line 55
ProcessReturn ==
    /\ pc = "process_pdf"
    /\ page > Len(results)
    /\ pc' = "pdf_done"
    /\ result' = Some(page_results)
    /\ UNCHANGED <<text, parts, tokens, idx, total, current, results, page_results, page, calls>>

NextPipeline ==
    \/ IterDigital
    \/ IterOcr
    \/ IterReturn
    \/ ProcessEmpty
    \/ ProcessExtract
    \/ ProcessReturn

SpecPipeline == InitPipeline /\ [][NextPipeline]_vars

\* the mode iter_pages gave the page
Provenance(p) == IF Strip(p.raw) # <<>> THEN "digital" ELSE "ocr"

\* C16 as stated: one record per page, in page order, with the page's mode
\* unchanged and the fourteen extraction keys, every page with empty text
\* included; where nothing is found scalars are null and lists empty.
C16_OneFullRecordPerPage ==
    pc = "pdf_done" =>
        /\ Len(result[1]) = Len(parts)
        /\ \A k \in DOMAIN result[1] :
              /\ result[1][k].pagina = k
              /\ result[1][k].mode = Provenance(parts[k])
              /\ ScalarKeys \cup ListKeys \subseteq DOMAIN result[1][k]

-----------------------------------------------------------------------------
(* extract_all called by several callers at once, one page each; a step is *)
(* one statement of one caller                                              *)

\* how many callers run at once
MaxCallers == 2

PaginasTexto ==
    { Chars("FOJAS 12 VTA. NUMERO 34"), Chars("RUT 1-9, ROL NACIONAL 05101-1234-5") }

\* a caller's frame: its argument, the statement it is at, its local `data`
\* and the value it returned
Frame(t) == [text |-> t, stmt |-> 1, data |-> <<>>, returned |-> None]

InitConcurrent ==
    /\ pc = "concurrent"
    /\ text = <<>>
    /\ parts = <<>>
    /\ Idle
    /\ result = None
    /\ results = <<>>
    /\ page_results = <<>>
    /\ page = 0
    /\ calls \in UNION {[1..k -> {Frame(t) : t \in PaginasTexto}] : k \in 1..MaxCallers}

\* the text kept in one module-level variable that the latest caller set
Argumento_ModuleGlobal(cs, w) == cs[Len(cs)].text

\* the parameter `text` as caller w's statements read it
Argumento(cs, w) == cs[w].text

\* the keys the k-th statement of extract_all stores, computed from text t
Sentencia(k, t) ==
    CASE k = 1 -> [rol_nacional |-> extract_rol_nacional(t)]
      [] k = 2 -> [nombre_concesion |-> extract_nombre_concesion(t)]
      [] k = 3 -> Let(extract_fojas_numero_anio(t), LAMBDA f :
                      [fojas |-> f.fojas, fojas_vuelta |-> f.fojas_vuelta,
                       numero_inscripcion |-> f.numero_inscripcion,
                       anio_inscripcion |-> f.anio_inscripcion])
      [] k = 4 -> [conservador |-> extract_conservador(t)]
      [] k = 5 -> [fecha_texto |-> extract_fecha_texto(t)]
      [] k = 6 -> [titular |-> extract_titular(t)]
      [] k = 7 -> [utm_vertices |-> extract_utm_vertices(t)]
      [] k = 8 -> [cedulas_identidad |-> extract_cedulas_identidad(t)]
      [] k = 9 -> [domicilios |-> extract_domicilios(t)]
      [] k = 10 -> [juzgados |-> extract_juzgados(t)]
      [] k = 11 -> [causas_rol |-> extract_causas_rol(t)]

\* the frame after its next statement; the twelfth is `return data`
Ejecutar(frame, t) ==
    IF frame.stmt <= 11
    THEN [frame EXCEPT !.data = Sentencia(frame.stmt, t) @@ @, !.stmt = @ + 1]
    ELSE [frame EXCEPT !.returned = Some(frame.data), !.stmt = @ + 1]

\* caller w runs its next statement
CallStep(w) ==
    /\ pc = "concurrent"
    /\ w \in DOMAIN calls
    /\ calls[w].stmt <= 12
    /\ calls' = [calls EXCEPT ![w] = Ejecutar(calls[w], Argumento(calls, w))]
    /\ UNCHANGED <<pc, text, parts, tokens, idx, total, current, result,
                   results, page_results, page>>

NextConcurrent == \E w \in 1..MaxCallers : CallStep(w)

SpecConcurrent == InitConcurrent /\ [][NextConcurrent]_vars

\* C12: whatever the interleaving, each caller returns the record extract_all
\* gives for its own text when run alone; callers with the same text return
\* equal records; no step of a caller changes another caller's frame.
C12_CallsDoNotInterfere ==
    /\ [](\A w \in DOMAIN calls :
             calls[w].returned # None =>
                 /\ calls[w].returned[1] = extract_all(calls[w].text).data
                 /\ \A v \in DOMAIN calls :
                       (calls[v].returned # None /\ calls[v].text = calls[w].text)
                           => calls[v].returned = calls[w].returned)
    /\ [][\A v, w \in DOMAIN calls :
             (calls'[w] # calls[w] /\ v # w) => calls'[v] = calls[v]]_vars

\* two callers on different pages, both returned, with different records
C12_Witness ==
    /\ pc = "concurrent"
    /\ Len(calls) = 2
    /\ calls[1].text = Chars("FOJAS 12 VTA. NUMERO 34")
    /\ calls[2].text = Chars("RUT 1-9, ROL NACIONAL 05101-1234-5")
    /\ calls[1].returned # None
    /\ calls[2].returned # None
    /\ calls[1].returned[1].fojas = Some(12)
    /\ calls[2].returned[1].cedulas_identidad = <<Chars("1-9")>>

====
